---- MODULE Spec2Model ----
(***************************************************************************)
(* S3Neo4jCSVLoader (databuilder/loader/S3_neo4j_csv_loader.py).           *)
(*                                                                         *)
(* The loader turns every node and relationship of a record into a row,    *)
(* derives an object key from the row's label(s) and the id of its set of  *)
(* column names, and read-appends-writes the CSV object under that key.    *)
(* Between the node loop and the relationship loop it sets the ACL of      *)
(* every object under the node prefix.                                     *)
(*                                                                         *)
(* Strings are sequences of tokens, so that formatting a key and a prefix  *)
(* test are computed and not assumed.  A cell value is the 1-tuple <<n>>;  *)
(* a missing value (pandas NaN, an empty CSV field) is <<>>.               *)
(***************************************************************************)
EXTENDS Integers, Sequences, FiniteSets, TLC

(* Bounds of the model. *)
MaxRows == 3

(* The two call sites of load that may overlap; only SpecConc moves 2. *)
Procs == {1, 2}

(* Inputs: the labels, the relationship triples and the ordered column     *)
(* names a serialized row may carry.  Wide has two orders of one set of    *)
(* column names and another set; the runs with storage failures draw from   *)
(* Narrow, the runs with overlapping invocations from Single.              *)
Wide ==
    [labels |-> {"A", "B"},
     triples |-> {<<"A", "B", "T">>, <<"B", "A", "T">>},
     orders |-> {<<"k">>, <<"k", "x">>, <<"x", "k">>}]

Narrow ==
    [labels |-> {"A"},
     triples |-> {<<"A", "B", "T">>},
     orders |-> {<<"k">>, <<"k", "x">>}]

Single ==
    [labels |-> {"A"},
     triples |-> {<<"A", "B", "T">>},
     orders |-> {<<"k">>}]

NaN == <<>>

VARIABLES
    bucket,              \* object key -> [body: CSV lines, acl]
    keys,                \* self._keys: set of column names -> id
    node_s3_prefix,      \* self._node_s3_prefix
    relation_s3_prefix,  \* self._relation_s3_prefix
    pc,                  \* per invocation: position in load
    phase,               \* per invocation: "node" or "rel" loop
    node_dict,           \* per invocation: the serialized row
    key,                 \* per invocation: key / key2 of load
    path,                \* per invocation: object key being handled
    df,                  \* per invocation: the dataframe to upload
    todo,                \* per invocation: objects update_acls still visits
    log,                 \* per invocation: calls made by this load, in order
    entry,               \* per invocation: bucket and keys when load was called
    routed,              \* <<grouping key, object key>> written by this loader
    producer,            \* what the records of this run can yield
    nrows                \* rows produced so far (bounded by MaxRows)

vars == <<bucket, keys, node_s3_prefix, relation_s3_prefix, pc, phase,
          node_dict, key, path, df, todo, log, entry, routed, producer,
          nrows>>

-----------------------------------------------------------------------------
(* Strings as token sequences. *)

IsPrefix(s, t) == Len(s) <= Len(t) /\ SubSeq(t, 1, Len(s)) = s

Digit == <<"0", "1", "2", "3", "4", "5", "6", "7", "8", "9">>

RECURSIVE IntToStr(_)
IntToStr(n) ==
    IF n < 10 THEN <<Digit[n + 1]>>
    ELSE IntToStr(n \div 10) \o <<Digit[(n % 10) + 1]>>

(* file_suffix of a node: label, underscore, id (format of key). *)
NodeFileSuffix(k) == <<k[1], "_">> \o IntToStr(k[2])

(* file_suffix of a relationship: key2[0], key2[1], key2[2] joined by underscores. *)
RelFileSuffix(k) == <<k[1], "_", k[2], "_", k[3]>>

(* _node_dir + file_suffix + '.csv' *)
ObjectKey(prefix, file_suffix) == prefix \o file_suffix \o <<".csv">>

-----------------------------------------------------------------------------
(* Rows and dataframes. *)

(* A serialized row: an ordered dict, as a sequence of <<name, value>>. *)
RowOf(names, tag) == [i \in 1..Len(names) |-> <<names[i], <<tag>>>>]

DictKeys(d) == [i \in 1..Len(d) |-> d[i][1]]

(* frozenset(record_dict.keys()) *)
FrozenKeys(d) == {d[i][1] : i \in 1..Len(d)}

DictGet(d, c) == (CHOOSE i \in 1..Len(d) : d[i][1] = c)

(* pd.DataFrame.from_records(node_dict, index=[0]) *)
FromRecords(d) ==
    [columns |-> DictKeys(d),
     rows |-> << [c \in FrozenKeys(d) |-> d[DictGet(d, c)][2]] >>]

ColSet(cols) == {cols[i] : i \in 1..Len(cols)}

RECURSIVE NewCols(_, _)
NewCols(cols, seen) ==
    IF cols = <<>> THEN <<>>
    ELSE IF Head(cols) \in seen THEN NewCols(Tail(cols), seen)
    ELSE <<Head(cols)>> \o NewCols(Tail(cols), seen)

Reindex(r, cs) == [c \in cs |-> IF c \in DOMAIN r THEN r[c] ELSE NaN]

(* pandas' concatenation of two frames with ignore_index=True: the union   *)
(* of the columns, in order of first appearance; the rows of d1, then the  *)
(* rows of d2; cells of a column a row lacks are NaN.                      *)
Concat(d1, d2) ==
    LET cols == d1.columns \o NewCols(d2.columns, ColSet(d1.columns))
        cs == ColSet(cols)
    IN  [columns |-> cols,
         rows |-> [i \in 1..(Len(d1.rows) + Len(d2.rows)) |->
                     IF i <= Len(d1.rows) THEN Reindex(d1.rows[i], cs)
                     ELSE Reindex(d2.rows[i - Len(d1.rows)], cs)]]

(* The append with its operands swapped: df2.append(df). *)
DfAppendSwapped(d1, d2) == Concat(d2, d1)

(* The append that keeps only the new row: df = df2. *)
DfAppendNewOnly(d1, d2) == d2

(* df.append(df2, ignore_index=True) *)
DfAppend(d1, d2) == Concat(d1, d2)

(* df.to_csv(path, index=False): a header line, then one line per row. *)
ToCsv(d) ==
    <<d.columns>> \o
    [i \in 1..Len(d.rows) |->
        [j \in 1..Len(d.columns) |-> d.rows[i][d.columns[j]]]]

(* pd.read_csv(path): the first line names the columns. *)
ReadCsv(body) ==
    LET cols == Head(body)
    IN  [columns |-> cols,
         rows |-> [i \in 1..(Len(body) - 1) |->
                     [c \in ColSet(cols) |->
                        body[i + 1][CHOOSE j \in 1..Len(cols) : cols[j] = c]]]]

-----------------------------------------------------------------------------
(* dict.setdefault(k, v): the value returned and the dict left behind. *)
SetDefault(m, k, v) ==
    IF k \in DOMAIN m THEN [value |-> m[k], map |-> m]
    ELSE [value |-> v, map |-> m @@ (k :> v)]

(* _make_key with an id one too high, as len(self._keys) + 1 would give. *)
MakeKeyOffByOne(ks, d) ==
    SetDefault(ks, FrozenKeys(d), Cardinality(DOMAIN ks) + 1)

(* _make_key: self._keys.setdefault(frozenset(record_dict.keys()),         *)
(* len(self._keys)).                                                       *)
MakeKey(ks, d) == SetDefault(ks, FrozenKeys(d), Cardinality(DOMAIN ks))

-----------------------------------------------------------------------------
(* Object storage. *)

NoObject == "ClientError404"

(* s3.Object(bucket, key).load() on a storage that answers truthfully. *)
HeadObject(b, k) == IF k \in DOMAIN b THEN "ok" ELSE NoObject

(* What a failing storage may answer to load(): a ClientError whose code   *)
(* is not "404", or an exception that is no ClientError.                   *)
HeadFailures == {"ClientError403", "EndpointConnectionError"}

(* _s3_obj_exists: True after load(); False on ClientError "404"; on any   *)
(* other ClientError the handler ends without return or raise, so the      *)
(* call yields None; an exception of another class leaves the function.    *)
S3ObjExists(outcome) ==
    CASE outcome = "ok" -> "True"
      [] outcome = "ClientError404" -> "False"
      [] outcome = "ClientError403" -> "None"
      [] OTHER -> "raise"

(* S3 stores the uploaded body as a new object with the default ACL. *)
PutObject(b, k, body) == (k :> [body |-> body, acl |-> "private"]) @@ b

(* obj.Acl().put(ACL='public-read') *)
PutAcl(b, k) == [b EXCEPT ![k].acl = "public-read"]

TokenOrder == <<".csv">> \o Digit \o <<"A", "B", "T", "_", "n/", "r/">>

Rank(t) == CHOOSE i \in 1..Len(TokenOrder) : TokenOrder[i] = t

RECURSIVE KeyLess(_, _)
KeyLess(a, b) ==
    IF a = <<>> THEN b # <<>>
    ELSE IF b = <<>> THEN FALSE
    ELSE IF Head(a) = Head(b) THEN KeyLess(Tail(a), Tail(b))
    ELSE Rank(Head(a)) < Rank(Head(b))

RECURSIVE SortKeys(_)
SortKeys(S) ==
    IF S = {} THEN <<>>
    ELSE LET m == CHOOSE x \in S : \A y \in S \ {x} : KeyLess(x, y)
         IN  <<m>> \o SortKeys(S \ {m})

(* The listing without its filter: my_bucket.objects.all(). *)
ListObjectsAll(b, prefix) == SortKeys(DOMAIN b)

(* my_bucket.objects.filter(Prefix=s3_prefix): the keys that start with    *)
(* the prefix, in the order S3 lists them.                                 *)
ListObjects(b, prefix) == SortKeys({k \in DOMAIN b : IsPrefix(prefix, k)})

-----------------------------------------------------------------------------
(* The record: next_node() / next_relation() yield an item or the          *)
(* sentinel.  The serializer is external; an item carries its row.         *)

Nodes(tag) ==
    {[label |-> l, dict |-> RowOf(ks, tag)] :
        l \in producer.labels, ks \in producer.orders}

Relations(tag) ==
    {[start_label |-> t[1], end_label |-> t[2], type |-> t[3],
      dict |-> RowOf(ks, tag)] :
        t \in producer.triples, ks \in producer.orders}

Ev(op, k, body, res) == [op |-> op, path |-> k, body |-> body, res |-> res]

NoRow == <<>>
NoDf == [columns |-> <<>>, rows |-> <<>>]

Start(space) ==
    /\ producer = space
    /\ bucket = <<>>
    /\ keys = <<>>
    /\ node_s3_prefix = <<"n/">>
    /\ relation_s3_prefix \in {<<"r/">>, <<"n/", "r/">>}
    /\ pc = [p \in Procs |-> "idle"]
    /\ phase = [p \in Procs |-> "node"]
    /\ node_dict = [p \in Procs |-> NoRow]
    /\ key = [p \in Procs |-> <<>>]
    /\ path = [p \in Procs |-> <<>>]
    /\ df = [p \in Procs |-> NoDf]
    /\ todo = [p \in Procs |-> <<>>]
    /\ log = [p \in Procs |-> <<>>]
    /\ entry = [p \in Procs |-> [bucket |-> <<>>, keys |-> <<>>]]
    /\ routed = {}
    /\ nrows = 0

Init == Start(Wide)

InitNarrow == Start(Narrow)

InitSingle == Start(Single)

(* No load is running at p, and none has been aborted by an exception: an  *)
(* uncaught exception ends the job, and the model follows it no further.   *)
Returned(p) == pc[p] \in {"idle", "done"}

(* __init__ and init: a new loader instance, with an empty _keys and the   *)
(* same configuration; no load of it has run.                              *)
Construct ==
    /\ \A p \in Procs : Returned(p)
    /\ keys # <<>>
    /\ keys' = <<>>
    /\ routed' = {}
    /\ pc' = [p \in Procs |-> "idle"]
    /\ log' = [p \in Procs |-> <<>>]
    /\ entry' = [p \in Procs |-> [bucket |-> <<>>, keys |-> <<>>]]
    /\ UNCHANGED <<bucket, node_s3_prefix, relation_s3_prefix, phase,
                   node_dict, key, path, df, todo, nrows, producer>>

(* load is called with a record. *)
Load(p) ==
    /\ Returned(p)
    /\ pc' = [pc EXCEPT ![p] = "next_node"]
    /\ phase' = [phase EXCEPT ![p] = "node"]
    /\ log' = [log EXCEPT ![p] = <<>>]
    /\ entry' = [entry EXCEPT ![p] = [bucket |-> bucket, keys |-> keys]]
    /\ UNCHANGED <<bucket, keys, node_s3_prefix, relation_s3_prefix,
                   node_dict, key, path, df, todo, routed, nrows, producer>>

(* An exception leaves load: nothing in load catches it. *)
Raise(p, op, k) ==
    /\ pc' = [pc EXCEPT ![p] = "aborted"]
    /\ log' = [log EXCEPT ![p] = Append(@, Ev(op, k, <<>>, "raise"))]
    /\ node_dict' = [node_dict EXCEPT ![p] = NoRow]
    /\ key' = [key EXCEPT ![p] = <<>>]
    /\ path' = [path EXCEPT ![p] = <<>>]
    /\ df' = [df EXCEPT ![p] = NoDf]
    /\ todo' = [todo EXCEPT ![p] = <<>>]
    /\ UNCHANGED <<bucket, keys, node_s3_prefix, relation_s3_prefix, phase,
                   entry, routed, nrows, producer>>

(* next_node() yields a node: serialize it, key it, name its file. *)
NextNode(p) ==
    /\ pc[p] = "next_node"
    /\ nrows < MaxRows
    /\ \E node \in Nodes(nrows + 1) :
         LET made == MakeKey(keys, node.dict)
             k == <<node.label, made.value>>
         IN  /\ node_dict' = [node_dict EXCEPT ![p] = node.dict]
             /\ keys' = made.map
             /\ log' = [log EXCEPT ![p] =
                          Append(@, Ev("next_node", <<>>, node.dict, "item"))]
             /\ key' = [key EXCEPT ![p] = k]
             /\ path' = [path EXCEPT ![p] =
                           ObjectKey(node_s3_prefix, NodeFileSuffix(k))]
    /\ nrows' = nrows + 1
    /\ pc' = [pc EXCEPT ![p] = "exists"]
    /\ UNCHANGED <<bucket, node_s3_prefix, relation_s3_prefix, phase, df,
                   todo, entry, routed, producer>>

(* The node loop ends and load goes straight to the relationships. *)
NodesExhaustedSkipAcl(p) ==
    /\ pc[p] = "next_node"
    /\ pc' = [pc EXCEPT ![p] = "next_relation"]
    /\ phase' = [phase EXCEPT ![p] = "rel"]
    /\ log' = [log EXCEPT ![p] = Append(@, Ev("next_node", <<>>, <<>>, "end"))]
    /\ UNCHANGED <<bucket, keys, node_s3_prefix, relation_s3_prefix,
                   node_dict, key, path, df, todo, entry, routed, nrows,
                   producer>>

(* next_node() yields the sentinel: the node loop ends, update_acls is next. *)
NodesExhausted(p) ==
    /\ pc[p] = "next_node"
    /\ pc' = [pc EXCEPT ![p] = "update_acls"]
    /\ log' = [log EXCEPT ![p] = Append(@, Ev("next_node", <<>>, <<>>, "end"))]
    /\ UNCHANGED <<bucket, keys, node_s3_prefix, relation_s3_prefix, phase,
                   node_dict, key, path, df, todo, entry, routed, nrows, producer>>

(* _get_s3_object after _s3_obj_exists answered r: only True takes the     *)
(* read-append branch; False and None both take the else branch.           *)
GetS3ObjectBranch(p, r) ==
    IF r = "raise" THEN Raise(p, "exists", path[p])
    ELSE
      /\ log' = [log EXCEPT ![p] = Append(@, Ev("exists", path[p], <<>>, r))]
      /\ IF r = "True"
         THEN /\ pc' = [pc EXCEPT ![p] = "read"]
              /\ df' = df
         ELSE /\ pc' = [pc EXCEPT ![p] = "write"]
              /\ df' = [df EXCEPT ![p] = FromRecords(node_dict[p])]
      /\ UNCHANGED <<bucket, keys, node_s3_prefix, relation_s3_prefix, phase,
                     node_dict, key, path, todo, entry, routed, nrows, producer>>

(* The existence check on a storage that answers. *)
ObjExists(p) ==
    /\ pc[p] = "exists"
    /\ GetS3ObjectBranch(p, S3ObjExists(HeadObject(bucket, path[p])))

(* pd.read_csv of the object, then the append of the new row. *)
ReadAppend(p) ==
    /\ pc[p] = "read"
    /\ df' = [df EXCEPT ![p] =
                DfAppend(ReadCsv(bucket[path[p]].body), FromRecords(node_dict[p]))]
    /\ pc' = [pc EXCEPT ![p] = "write"]
    /\ log' = [log EXCEPT ![p] =
                 Append(@, Ev("read", path[p], bucket[path[p]].body, "ok"))]
    /\ UNCHANGED <<bucket, keys, node_s3_prefix, relation_s3_prefix, phase,
                   node_dict, key, path, todo, entry, routed, nrows, producer>>

(* Where load goes on after a row. *)
LoopHead(ph) == IF ph = "node" THEN "next_node" ELSE "next_relation"

(* df.to_csv uploads the whole table; the row is done. *)
WriteCsv(p) ==
    /\ pc[p] = "write"
    /\ bucket' = PutObject(bucket, path[p], ToCsv(df[p]))
    /\ routed' = routed \cup {<<key[p], path[p]>>}
    /\ log' = [log EXCEPT ![p] =
                 Append(@, Ev("write", path[p], ToCsv(df[p]), "ok"))]
    /\ pc' = [pc EXCEPT ![p] = LoopHead(phase[p])]
    /\ node_dict' = [node_dict EXCEPT ![p] = NoRow]
    /\ key' = [key EXCEPT ![p] = <<>>]
    /\ path' = [path EXCEPT ![p] = <<>>]
    /\ df' = [df EXCEPT ![p] = NoDf]
    /\ UNCHANGED <<keys, node_s3_prefix, relation_s3_prefix, phase, todo,
                   entry, nrows, producer>>

(* The loop of update_acls left after its first turn. *)
AfterAclStop(ts) == "next_relation"

(* Where load goes on when update_acls has ts left to visit. *)
AfterAcl(ts) == IF ts = <<>> THEN "next_relation" ELSE "acl_put"

(* update_acls: list the objects under the node prefix. *)
UpdateAcls(p) ==
    /\ pc[p] = "update_acls"
    /\ LET objs == ListObjects(bucket, node_s3_prefix)
       IN  /\ todo' = [todo EXCEPT ![p] = objs]
           /\ pc' = [pc EXCEPT ![p] = AfterAcl(objs)]
    /\ phase' = [phase EXCEPT ![p] = "rel"]
    /\ log' = [log EXCEPT ![p] = Append(@, Ev("list", node_s3_prefix, <<>>, "ok"))]
    /\ UNCHANGED <<bucket, keys, node_s3_prefix, relation_s3_prefix,
                   node_dict, key, path, df, entry, routed, nrows, producer>>

(* update_acls: one turn of the loop over the listed objects. *)
AclPut(p) ==
    /\ pc[p] = "acl_put"
    /\ bucket' = PutAcl(bucket, Head(todo[p]))
    /\ todo' = [todo EXCEPT ![p] = Tail(@)]
    /\ pc' = [pc EXCEPT ![p] = AfterAcl(Tail(todo[p]))]
    /\ log' = [log EXCEPT ![p] = Append(@, Ev("acl", Head(todo[p]), <<>>, "ok"))]
    /\ UNCHANGED <<keys, node_s3_prefix, relation_s3_prefix, phase,
                   node_dict, key, path, df, entry, routed, nrows, producer>>

(* next_relation() yields a relationship. *)
NextRelation(p) ==
    /\ pc[p] = "next_relation"
    /\ nrows < MaxRows
    /\ \E relation \in Relations(nrows + 1) :
         LET made == MakeKey(keys, relation.dict)
             key2 == <<relation.start_label, relation.end_label,
                       relation.type, made.value>>
         IN  /\ node_dict' = [node_dict EXCEPT ![p] = relation.dict]
             /\ keys' = made.map
             /\ log' = [log EXCEPT ![p] =
                          Append(@, Ev("next_relation", <<>>, relation.dict,
                                       "item"))]
             /\ key' = [key EXCEPT ![p] = key2]
             /\ path' = [path EXCEPT ![p] =
                           ObjectKey(relation_s3_prefix, RelFileSuffix(key2))]
    /\ nrows' = nrows + 1
    /\ pc' = [pc EXCEPT ![p] = "exists"]
    /\ UNCHANGED <<bucket, node_s3_prefix, relation_s3_prefix, phase, df,
                   todo, entry, routed, producer>>

(* next_relation() yields the sentinel: load returns. *)
RelationsExhausted(p) ==
    /\ pc[p] = "next_relation"
    /\ pc' = [pc EXCEPT ![p] = "done"]
    /\ log' = [log EXCEPT ![p] =
                 Append(@, Ev("next_relation", <<>>, <<>>, "end"))]
    /\ UNCHANGED <<bucket, keys, node_s3_prefix, relation_s3_prefix, phase,
                   node_dict, key, path, df, todo, entry, routed, nrows, producer>>

(* Storage failures. *)

ObjExistsFails(p) ==
    /\ pc[p] = "exists"
    /\ \E o \in HeadFailures : GetS3ObjectBranch(p, S3ObjExists(o))

ReadFails(p) == pc[p] = "read" /\ Raise(p, "read", path[p])

(* The exception of the upload caught and the row skipped. *)
WriteFailsSwallowed(p) ==
    /\ pc[p] = "write"
    /\ pc' = [pc EXCEPT ![p] = LoopHead(phase[p])]
    /\ log' = [log EXCEPT ![p] = Append(@, Ev("write", path[p], <<>>, "raise"))]
    /\ UNCHANGED <<bucket, keys, node_s3_prefix, relation_s3_prefix, phase,
                   node_dict, key, path, df, todo, entry, routed, nrows,
                   producer>>

WriteFails(p) == pc[p] = "write" /\ Raise(p, "write", path[p])

ListFails(p) == pc[p] = "update_acls" /\ Raise(p, "list", node_s3_prefix)

AclPutFails(p) == pc[p] = "acl_put" /\ Raise(p, "acl", Head(todo[p]))

Step(p) ==
    \/ Load(p)
    \/ NextNode(p)
    \/ NodesExhausted(p)
    \/ ObjExists(p)
    \/ ReadAppend(p)
    \/ WriteCsv(p)
    \/ UpdateAcls(p)
    \/ AclPut(p)
    \/ NextRelation(p)
    \/ RelationsExhausted(p)

Fault(p) ==
    \/ ObjExistsFails(p)
    \/ ReadFails(p)
    \/ WriteFails(p)
    \/ ListFails(p)
    \/ AclPutFails(p)

(* One invocation at a time, on a storage that answers. *)
Next == Construct \/ Step(1)

Spec == Init /\ [][Next]_vars

(* One invocation at a time, on a storage that may fail. *)
NextFault == Construct \/ Step(1) \/ Fault(1)

SpecFault == InitNarrow /\ [][NextFault]_vars

(* Two invocations that may overlap, on a storage that answers. *)
NextConc == Construct \/ \E p \in Procs : Step(p)

SpecConc == InitSingle /\ [][NextConc]_vars

-----------------------------------------------------------------------------
(* Vocabulary of the properties. *)

(* The cells of a row that hold a value, by column name. *)
DataRow(r) == [c \in {x \in DOMAIN r : r[x] # NaN} |-> r[c]]

(* The rows of a CSV object, in order. *)
DataRows(body) ==
    LET d == ReadCsv(body)
    IN  [i \in 1..Len(d.rows) |-> DataRow(d.rows[i])]

(* A serialized row as the row a table holds for it. *)
DictData(d) ==
    [c \in {d[i][1] : i \in 1..Len(d)} |->
        d[CHOOSE i \in 1..Len(d) : d[i][1] = c][2]]

(* The positions of the log of p whose call is one of ops. *)
At(p, ops) == {i \in 1..Len(log[p]) : log[p][i].op \in ops}

Items(p, op) == {i \in At(p, {op}) : log[p][i].res = "item"}

UnderNodePrefix(b) == {k \in DOMAIN b : IsPrefix(node_s3_prefix, k)}

-----------------------------------------------------------------------------
(* C1: within one loader instance two rows are written to the same object  *)
(* key if and only if they have the same grouping key.                     *)
C1_PathInjective ==
    \A a \in routed : \A b \in routed : (a[2] = b[2]) <=> (a[1] = b[1])

(* C2: an existence check that fails with anything but not-found ends the  *)
(* load at that call: it is the last call of the load, which is aborted.   *)
C2_ExistsErrorAborts ==
    \A i \in At(1, {"exists"}) :
        log[1][i].res \in {"None", "raise"} =>
            i = Len(log[1]) /\ pc[1] = "aborted"

(* C3: whenever an object is written, the rows it held are a prefix of the *)
(* rows it holds afterwards.                                               *)
C3_AppendOnly ==
    [][\A k \in DOMAIN bucket :
          IsPrefix(DataRows(bucket[k].body), DataRows(bucket'[k].body))]_vars

(* The calls of the load of p that touch a CSV object, in order. *)
StorageCalls(p) ==
    SelectSeq(log[p], LAMBDA e : e.op \in {"exists", "read", "write"})

(* The load of p has returned, and its record had one node and nothing else. *)
OneNodeOnly(p) ==
    /\ pc[p] = "done"
    /\ Cardinality(Items(p, "next_node")) = 1
    /\ Items(p, "next_relation") = {}

TheNodeDict(p) == log[p][CHOOSE i \in Items(p, "next_node") : TRUE].body

(* C4: a load of one node and no relationship checks the target; if it did *)
(* not exist it writes once, a table of the header and the node's row, and *)
(* reads nothing; if it held N rows it reads once, then writes once to the *)
(* same key N+1 rows: the N old rows, then the node's row.                 *)
C4_OneNodeLoad ==
    OneNodeOnly(1) =>
        LET d == TheNodeDict(1)
            calls == StorageCalls(1)
            k == calls[1].path
            old == entry[1].bucket
        IN  /\ calls[1].op = "exists"
            /\ IF k \notin DOMAIN old
               THEN /\ Len(calls) = 2
                    /\ calls[2].op = "write" /\ calls[2].path = k
                    /\ calls[2].body = << [i \in 1..Len(d) |-> d[i][1]],
                                          [i \in 1..Len(d) |-> d[i][2]] >>
                    /\ bucket[k].body = calls[2].body
               ELSE LET N == Len(old[k].body) - 1
                    IN  /\ Len(calls) = 3
                        /\ calls[2].op = "read" /\ calls[2].path = k
                        /\ calls[2].body = old[k].body
                        /\ calls[3].op = "write" /\ calls[3].path = k
                        /\ Len(DataRows(calls[3].body)) = N + 1
                        /\ SubSeq(DataRows(calls[3].body), 1, N)
                             = DataRows(old[k].body)
                        /\ DataRows(calls[3].body)[N + 1] = DictData(d)
                        /\ bucket[k].body = calls[3].body

(* A one-node load whose target held two rows. *)
C4_Witness ==
    /\ OneNodeOnly(1)
    /\ LET k == StorageCalls(1)[1].path
       IN  /\ k \in DOMAIN entry[1].bucket
           /\ Len(entry[1].bucket[k].body) = 3
           /\ Len(bucket[k].body) = 4

(* C5: _make_key on a row whose set of column names is known returns the   *)
(* recorded id and leaves the mapping alone; on an unknown set it returns  *)
(* the number of known sets and adds that one entry.  So the ids are       *)
(* 0..n-1 and no two sets share one.                                       *)
C5_SignatureIds ==
    /\ [](/\ {keys[s] : s \in DOMAIN keys}
              = 0..(Cardinality(DOMAIN keys) - 1)
          /\ \A s \in DOMAIN keys : \A t \in DOMAIN keys :
                keys[s] = keys[t] => s = t)
    /\ [][\A p \in Procs :
            (Len(log'[p]) = Len(log[p]) + 1
               /\ log'[p][Len(log'[p])].res = "item") =>
              LET d == log'[p][Len(log'[p])].body
                  fs == {d[i][1] : i \in 1..Len(d)}
                  id == key'[p][Len(key'[p])]
              IN  IF fs \in DOMAIN keys
                  THEN id = keys[fs] /\ keys' = keys
                  ELSE /\ id = Cardinality(DOMAIN keys)
                       /\ DOMAIN keys' = DOMAIN keys \cup {fs}
                       /\ keys'[fs] = id
                       /\ \A s \in DOMAIN keys : keys'[s] = keys[s]]_vars

(* A row whose columns come in the order x, k gets the id 0 that the set   *)
(* got when it came as k, x, after another set got the id 1.               *)
C5_Witness ==
    /\ pc[1] = "exists"
    /\ DictKeys(node_dict[1]) = <<"x", "k">>
    /\ key[1][Len(key[1])] = 0
    /\ Cardinality(DOMAIN keys) = 2
    /\ keys[{"k"}] = 1
    /\ nrows = 3

(* C6: in one load every node is consumed and written before update_acls   *)
(* starts; update_acls runs once and is through before the first           *)
(* relationship is requested; no ACL is set after that.                    *)
C6_Ordering ==
    LET lists == At(1, {"list"})
        rels == At(1, {"next_relation"})
        acls == At(1, {"acl"})
    IN  /\ Cardinality(lists) <= 1
        /\ (pc[1] = "done" \/ rels # {}) => Cardinality(lists) = 1
        /\ \A j \in lists :
              /\ \A i \in At(1, {"next_node"}) : i < j
              /\ Cardinality({w \in At(1, {"write"}) : w < j})
                   = Cardinality(Items(1, "next_node"))
              /\ \A a \in acls : j < a
              /\ \A w \in At(1, {"exists", "read", "write"}) :
                    j < w => \E r \in Items(1, "next_relation") : j < r /\ r < w
        /\ \A a \in acls : \A r \in rels : a < r
        /\ rels # {} => todo[1] = <<>>
        /\ \A a \in acls : log[1][a].path \notin
              {log[1][b].path : b \in {c \in acls : c < a}}

(* A load that wrote a node, set an ACL and wrote a relationship. *)
C6_Witness ==
    /\ pc[1] = "done"
    /\ Items(1, "next_node") # {}
    /\ At(1, {"acl"}) # {}
    /\ Items(1, "next_relation") # {}

(* update_acls of p is through and no relationship has been requested. *)
AclPassDone(p) == pc[p] = "next_relation" /\ At(p, {"next_relation"}) = {}

AllPublic(ks) == \A k \in ks : bucket[k].acl = "public-read"

(* C7: when the nodes are processed and update_acls is through, every      *)
(* object under the node prefix, the node files this load wrote among      *)
(* them, is public-read and had its ACL set once by this load; this holds  *)
(* of every load, and still when load returns unless the relationship      *)
(* prefix lies under the node prefix.                                      *)
C7_NodePrefixPublic ==
    /\ AclPassDone(1) =>
          /\ AllPublic(UnderNodePrefix(bucket))
          /\ \A k \in UnderNodePrefix(bucket) :
                Cardinality({i \in At(1, {"acl"}) : log[1][i].path = k}) = 1
          /\ \A w \in At(1, {"write"}) :
                log[1][w].path \in UnderNodePrefix(bucket)
    /\ (pc[1] = "done" /\ ~IsPrefix(node_s3_prefix, relation_s3_prefix)) =>
          AllPublic(UnderNodePrefix(bucket))

(* update_acls is through in a load that rewrote one node file, which an   *)
(* earlier load had made public, beside one it did not touch.              *)
C7_Witness ==
    /\ AclPassDone(1)
    /\ \E k \in UnderNodePrefix(entry[1].bucket) :
          /\ entry[1].bucket[k].acl = "public-read"
          /\ \E w \in At(1, {"write"}) : log[1][w].path = k
    /\ \E k \in UnderNodePrefix(bucket) :
          \A w \in At(1, {"write"}) : log[1][w].path # k

(* The load of p has returned, and its record was empty. *)
EmptyRecord(p) ==
    /\ pc[p] = "done"
    /\ Items(p, "next_node") = {}
    /\ Items(p, "next_relation") = {}

(* C8 as stated: a load of an empty record checks, reads and writes no CSV *)
(* object, leaves _keys alone, and sets no object's ACL.                   *)
C8_EmptyRecordNoAcl ==
    EmptyRecord(1) =>
        /\ At(1, {"exists", "read", "write"}) = {}
        /\ keys = entry[1].keys
        /\ At(1, {"acl"}) = {}

(* C8 amended: a load of an empty record checks, reads and writes no CSV   *)
(* object and leaves _keys alone; it sets to public-read, once each, the   *)
(* ACL of exactly the objects the bucket held under the node prefix, and   *)
(* changes nothing else.                                                   *)
C8_EmptyRecordAclOnly ==
    EmptyRecord(1) =>
        LET old == entry[1].bucket
        IN  /\ At(1, {"exists", "read", "write"}) = {}
            /\ keys = entry[1].keys
            /\ {log[1][i].path : i \in At(1, {"acl"})} = UnderNodePrefix(old)
            /\ Cardinality(At(1, {"acl"})) = Cardinality(UnderNodePrefix(old))
            /\ DOMAIN bucket = DOMAIN old
            /\ \A k \in DOMAIN old :
                  /\ bucket[k].body = old[k].body
                  /\ bucket[k].acl =
                       IF k \in UnderNodePrefix(old) THEN "public-read"
                       ELSE old[k].acl

(* An empty record loaded over a bucket with a private object under the    *)
(* node prefix, which the load has made public.                            *)
C8_Witness ==
    /\ EmptyRecord(1)
    /\ \E k \in UnderNodePrefix(entry[1].bucket) :
          /\ entry[1].bucket[k].acl = "private"
          /\ bucket[k].acl = "public-read"

(* C9: an exception of a read, a write or an ACL update is the last call   *)
(* of its load, which is aborted; the failing call and whatever follows    *)
(* leave every object as it was.                                           *)
C9_ErrorAborts ==
    /\ [](\A i \in At(1, {"read", "write", "list", "acl"}) :
             log[1][i].res = "raise" =>
                i = Len(log[1]) /\ pc[1] = "aborted")
    /\ [][pc'[1] = "aborted" => bucket' = bucket]_vars

(* A load aborted by its second ACL update, after it wrote a node. *)
C9_Witness ==
    /\ pc[1] = "aborted"
    /\ log[1][Len(log[1])].op = "acl"
    /\ Cardinality(At(1, {"acl"})) = 2
    /\ At(1, {"write"}) # {}

(* The load of p has returned, and its record had one row. *)
OneRow(p) ==
    /\ pc[p] = "done"
    /\ Cardinality(Items(p, "next_node") \cup Items(p, "next_relation")) = 1

TheRead(p) == log[p][CHOOSE i \in At(p, {"read"}) : TRUE]

TheWrite(p) == log[p][CHOOSE i \in At(p, {"write"}) : TRUE]

TheRow(p) ==
    DictData(log[p][CHOOSE i \in Items(p, "next_node")
                                   \cup Items(p, "next_relation") : TRUE].body)

(* C10: two loads each add one row to one existing object of N rows.  If   *)
(* both read the N old rows, the object ends with N+1 rows and holds the   *)
(* row of only one of them; if one read what the other wrote, it ends      *)
(* with N+2 rows, the two new rows last, in that order.                    *)
C10_LostUpdate ==
    \A p \in Procs : \A q \in Procs \ {p} :
        (/\ OneRow(p) /\ OneRow(q)
         /\ At(p, {"read"}) # {} /\ At(q, {"read"}) # {}
         /\ TheRead(p).path = TheRead(q).path) =>
            LET N == Len(TheRead(p).body) - 1
                final == DataRows(bucket[TheRead(p).path].body)
                Holds(r) == \E i \in 1..Len(final) : final[i] = r
            IN  /\ TheRead(q).body = TheRead(p).body =>
                      /\ Len(final) = N + 1
                      /\ Holds(TheRow(p)) # Holds(TheRow(q))
                /\ TheRead(q).body = TheWrite(p).body =>
                      /\ Len(final) = N + 2
                      /\ final[N + 1] = TheRow(p)
                      /\ final[N + 2] = TheRow(q)

(* Both loads read the same table of one row or more; one row is lost. *)
C10_Witness ==
    /\ OneRow(1) /\ OneRow(2)
    /\ At(1, {"read"}) # {} /\ At(2, {"read"}) # {}
    /\ TheRead(1).path = TheRead(2).path
    /\ TheRead(1).body = TheRead(2).body
    /\ Len(DataRows(bucket[TheRead(1).path].body)) = Len(TheRead(1).body)

====
